---- MODULE Spec2Model ----
(***************************************************************************)
(* MassSpec_FHE dataset registry (frontend/web/src/App.tsx).               *)
(*                                                                         *)
(* The ledger is a key-value contract with getData/setData.  One key,      *)
(* "massspec_keys", holds the JSON list of dataset ids (the index); the    *)
(* key "massspec_<id>" holds the JSON record of dataset <id>.  Each        *)
(* browser session runs the React component App; its async handlers        *)
(* loadDataList, uploadData and analyzeData suspend at every await, so an  *)
(* invocation is a task that advances one await at a time and interleaves  *)
(* with the other tasks of every session.                                  *)
(***************************************************************************)
EXTENDS Integers, Sequences, FiniteSets, Bags, TLC

(***************************************************************************)
(* Bounds of the model.                                                    *)
(***************************************************************************)
Sessions == {1, 2}            \* browser sessions sharing the ledger
Slots == {1, 2}               \* handler invocations that can be in flight
MaxOps == 3                   \* handler invocations started in a run
MaxOpsExt == 2                \* the same, when other clients write too
MaxTicks == 1                 \* millisecond ticks of the clock
MaxRand == 0                  \* Math.random() suffixes are 0..MaxRand
MaxForeign == 1               \* writes by other clients of the contract
MaxEmptyReads == 1            \* handler starts that read an empty `account`
SampleTypes == {"Protein"}    \* one of the <option> values
SpectrumInputs == {"mz"}      \* text typed in the massSpecData field

(***************************************************************************)
(* Program constants.                                                      *)
(***************************************************************************)
MsPerSec == 1000              \* Math.floor(Date.now() / 1000)
AnalyzeDelayMs == 4000        \* setTimeout(resolve, 4000)
FheResultText == "FHE-Molecular-Profile: C6H12O6 (Glucose) @ 95% confidence"

ClockStart == 2 * MsPerSec - 1   \* Date.now() when the run starts
UNDEF == "undefined"          \* a missing JSON key / JS undefined
NoId == <<0, 0>>
NoPayload == <<>>

VARIABLES
  now,       \* Date.now(), milliseconds
  ticks,     \* clock ticks taken (bounded by MaxTicks)
  ledger,    \* the contract's storage: [index |-> bytes, recs |-> id :> bytes]
  ui,        \* React state of each session
  task,      \* the handler invocation in each slot
  ops,       \* handler invocations still allowed to start
  foreign,   \* writes by other clients still allowed
  emptyReads \* handler starts still allowed to read an empty `account`

vars == <<now, ticks, ledger, ui, task, ops, foreign, emptyReads>>

(***************************************************************************)
(* Bytes stored under a record key.  kind "empty" is the zero-length value *)
(* getData returns for a key never written, "garbage" is bytes that        *)
(* ethers.toUtf8String / JSON.parse reject, "json" is a JSON object whose  *)
(* missing keys read as UNDEF.                                             *)
(***************************************************************************)
EmptyBytes ==
  [kind |-> "empty", data |-> NoPayload, timestamp |-> 0, owner |-> UNDEF,
   sampleType |-> UNDEF, status |-> UNDEF, fheResult |-> UNDEF]

GarbageBytes == [EmptyBytes EXCEPT !.kind = "garbage"]

\* ethers.toUtf8Bytes(JSON.stringify(obj)): keys whose value is undefined
\* are dropped by JSON.stringify, which is how UNDEF already reads.
toUtf8Bytes(obj) ==
  [kind |-> "json", data |-> obj.data, timestamp |-> obj.timestamp,
   owner |-> obj.owner, sampleType |-> obj.sampleType, status |-> obj.status,
   fheResult |-> obj.fheResult]

\* Bytes stored under "massspec_keys".
EmptyIndex == [kind |-> "empty", keys |-> <<>>]
GarbageIndex == [kind |-> "garbage", keys |-> <<>>]
NonListIndex == [kind |-> "nonlist", keys |-> <<>>]   \* JSON such as {} or 42
ListIndex(ks) == [kind |-> "list", keys |-> ks]

\* contract.getData(`massspec_${key}`)
getData(key) ==
  IF key \in DOMAIN ledger.recs THEN ledger.recs[key] ELSE EmptyBytes

\* the storage after contract.setData(`massspec_${key}`, bytes)
setRecord(key, bytes) ==
  [ledger EXCEPT !.recs = [k \in DOMAIN ledger.recs \cup {key} |->
                             IF k = key THEN bytes ELSE ledger.recs[k]]]

\* the storage after contract.setData("massspec_keys", bytes)
setIndex(bytes) == [ledger EXCEPT !.index = bytes]

(***************************************************************************)
(* Pure helpers of App.tsx.                                                *)
(***************************************************************************)
\* String.prototype.toLowerCase on the account strings of the model
toLowerCase(s) == IF s = "0xA" THEN "0xa" ELSE s

\* isOwner(address), with the account it closes over made explicit
isOwner(account, address) == toLowerCase(account) = toLowerCase(address)

\* `FHE-MS-${btoa(JSON.stringify(newData))}`
encryptedData(newData) == <<"FHE-MS", newData.sampleType, newData.massSpecData>>

\* `ms-${Date.now()}-${Math.random().toString(36).substring(2, 9)}`
dataId(ms, rnd) == <<ms, rnd>>

\* the object uploadData stores (lines 165-171)
massSpecData(payload, ms, account, sampleType) ==
  [data |-> payload, timestamp |-> ms \div MsPerSec, owner |-> account,
   sampleType |-> sampleType, status |-> "pending", fheResult |-> UNDEF]

updatedDataNoResult(data) == [data EXCEPT !.status = "analyzed"]

\* { ...data, status: "analyzed", fheResult } (lines 264-268)
updatedData(data) ==
  [data EXCEPT !.status = "analyzed", !.fheResult = FheResultText]

\* JSON.parse(ethers.toUtf8String(dataBytes)) of a "json" value
parseRecord(bytes) ==
  [data |-> bytes.data, timestamp |-> bytes.timestamp, owner |-> bytes.owner,
   sampleType |-> bytes.sampleType, status |-> bytes.status,
   fheResult |-> bytes.fheResult]

listItemNoResult(key, data) ==
  [id |-> key, encryptedData |-> data.data, timestamp |-> data.timestamp,
   owner |-> data.owner, sampleType |-> data.sampleType,
   status |-> IF data.status = UNDEF THEN "pending" ELSE data.status,
   fheResult |-> UNDEF]

\* the object loadDataList pushes (lines 113-121)
listItem(key, data) ==
  [id |-> key, encryptedData |-> data.data, timestamp |-> data.timestamp,
   owner |-> data.owner, sampleType |-> data.sampleType,
   status |-> IF data.status = UNDEF THEN "pending" ELSE data.status,
   fheResult |-> data.fheResult]

decodesAlways(bytes) == bytes.kind # "empty"

\* whether the inner try of loadDataList pushes an item for these bytes
decodes(bytes) == bytes.kind = "json"

\* lines 109-128 for one key: the list after the iteration
pushRecord(list, key, fetched, bytes) ==
  IF fetched /\ bytes.kind # "empty" /\ decodes(bytes)
  THEN Append(list, listItem(key, parseRecord(bytes)))
  ELSE list

\* the comparator of list.sort: (a, b) => b.timestamp - a.timestamp
compare(a, b) == b.timestamp - a.timestamp

\* Array.prototype.sort is stable: x goes behind every element that does
\* not compare after it.
RECURSIVE insertSorted(_, _)
insertSorted(sorted, x) ==
  IF sorted = <<>> THEN <<x>>
  ELSE IF compare(Head(sorted), x) <= 0
       THEN <<Head(sorted)>> \o insertSorted(Tail(sorted), x)
       ELSE <<x>> \o sorted

RECURSIVE sortFrom(_, _)
sortFrom(sorted, rest) ==
  IF rest = <<>> THEN sorted
  ELSE sortFrom(insertSorted(sorted, Head(rest)), Tail(rest))

sortNothing(list) == list

\* list.sort((a, b) => b.timestamp - a.timestamp)
sortList(list) == sortFrom(<<>>, list)

(***************************************************************************)
(* The view over the snapshot (lines 41-51, 303-337).  Text is a sequence  *)
(* of characters, so that includes and toLowerCase are computed.           *)
(***************************************************************************)
DigitChar == <<"0", "1", "2", "3", "4", "5", "6", "7", "8", "9">>

\* Number.prototype.toString in base 10
RECURSIVE Digits(_)
Digits(n) ==
  IF n < 10 THEN <<DigitChar[n + 1]>>
  ELSE Append(Digits(n \div 10), DigitChar[(n % 10) + 1])

\* the characters of `ms-${Date.now()}-${suffix}` for the id <<ms, suffix>>
idText(id) == <<"m", "s", "-">> \o Digits(id[1]) \o <<"-">> \o Digits(id[2])

\* the characters of the sampleType strings of the model
sampleTypeText(st) ==
  IF st = "Protein" THEN <<"P", "r", "o", "t", "e", "i", "n">> ELSE <<>>

\* String.prototype.toLowerCase on one character of the model's alphabet
lowerChar(c) ==
  CASE c = "P" -> "p" [] c = "R" -> "r" [] c = "O" -> "o" [] c = "T" -> "t"
    [] c = "M" -> "m" [] c = "S" -> "s" [] OTHER -> c

toLowerCaseText(text) == [i \in DOMAIN text |-> lowerChar(text[i])]

\* String.prototype.includes
includes(text, part) ==
  \E off \in 0..(Len(text) - Len(part)) :
    \A i \in 1..Len(part) : text[off + i] = part[i]

filteredDataCaseSensitive(dataList, searchQuery, filterStatus) ==
  LET keep(item) ==
        /\ \/ includes(toLowerCaseText(sampleTypeText(item.sampleType)), searchQuery)
           \/ includes(toLowerCaseText(idText(item.id)), searchQuery)
        /\ filterStatus = "all" \/ item.status = filterStatus
  IN SelectSeq(dataList, keep)

\* filteredData (lines 46-51), with the state it reads made explicit
filteredData(dataList, searchQuery, filterStatus) ==
  LET matchesSearch(item) ==
        \/ includes(toLowerCaseText(sampleTypeText(item.sampleType)),
                    toLowerCaseText(searchQuery))
        \/ includes(toLowerCaseText(idText(item.id)),
                    toLowerCaseText(searchQuery))
      matchesFilter(item) == filterStatus = "all" \/ item.status = filterStatus
      keep(item) == matchesSearch(item) /\ matchesFilter(item)
  IN SelectSeq(dataList, keep)

\* dataList.filter(d => d.status === status).length (lines 41-43)
countStatus(dataList, status) ==
  LET has(d) == d.status = status IN Len(SelectSeq(dataList, has))

analyzedCount(dataList) == countStatus(dataList, "analyzed")

pendingCountRest(dataList) ==
  LET has(d) == d.status # "analyzed" IN Len(SelectSeq(dataList, has))

pendingCount(dataList) == countStatus(dataList, "pending")

errorCount(dataList) == countStatus(dataList, "error")

\* dataList.length || 1 (lines 310, 319, 328)
barDivisor(dataList) == IF Len(dataList) = 0 THEN 1 ELSE Len(dataList)

\* the height of a bar in percent, rounded down
barHeight(count, dataList) == (count * 100) \div barDivisor(dataList)

\* what the search box and the status select can hold (lines 37-38, 457-460)
SearchQueries ==
  {<<>>, <<"p", "r", "o">>, <<"P", "R", "O", "T">>, <<"2", "0", "0", "0">>,
   <<"M", "S", "-", "1">>, <<"x">>}

FilterStatuses == {"all", "pending", "analyzed", "error"}

(***************************************************************************)
(* State of a session and of a handler invocation.                         *)
(***************************************************************************)
\* accounts the wallet of each session can select
WalletAccounts(s) == IF s = 1 THEN {"0xa", "0xb"} ELSE {"0xA"}

\* `account` while `provider` is set.  Both are written by the wallet
\* handlers alone (onWalletSelect, the accountsChanged listener,
\* onDisconnect; lines 57-79), which can run between any two steps of the
\* other handlers, so a step that reads `account` reads any value the
\* wallet can have put there.  With `provider` null uploadData and
\* analyzeData return at once (lines 142-145, 234-237).
accountValues(s) == WalletAccounts(s)

\* `accounts[0] || ""` (lines 63, 67): `account` is the empty string while
\* `provider` is set when the wallet reports no account, as it does when it
\* is locked; the handler that starts then closes over "".
closedOverAccounts(s) ==
  accountValues(s) \cup (IF emptyReads > 0 THEN {""} ELSE {})

\* the React state once the effect of lines 53-55 has run loadDataList on
\* the ledger nobody has written yet: the useState initial values (lines
\* 19-31) with loading and isRefreshing cleared by the finally block.
InitialUi ==
  [loading |-> FALSE, dataList |-> <<>>, isRefreshing |-> FALSE,
   uploading |-> FALSE]

\* an empty slot; the fields are the locals of the handlers, then the
\* bookkeeping the properties read:
\*   preStatus  the stored status when Analyze was clicked
\*   fail       the error the catch block of uploadData/analyzeData reports
\*   stop       why loadDataList ended without calling setDataList
\*   writes     setData calls of this invocation that succeeded
\*   dirty      the ledger was written while this listing iterated
\*   fetchErr   positions of the index whose getData threw
\*   listed     this invocation called setDataList
\*   clobbered  uploadData wrote its record over a stored one
Idle ==
  [pc |-> "idle", kind |-> "none", sess |-> 1,
   account |-> "", newData |-> [sampleType |-> "", massSpecData |-> ""],
   id |-> NoId, rec |-> EmptyBytes, keys |-> <<>>, i |-> 0, list |-> <<>>,
   actor |-> "", t0 |-> 0,
   preStatus |-> UNDEF, fail |-> "", stop |-> "", writes |-> 0,
   dirty |-> FALSE, fetchErr |-> {}, listed |-> FALSE, clobbered |-> FALSE]

\* a handler that has returned leaves its slot before anything else runs
Returned == \E t \in Slots : task[t].pc = "end"

\* the lowest empty slot takes the next invocation
FreeSlot(t) ==
  /\ ~Returned
  /\ task[t].pc = "idle"
  /\ \A u \in Slots : u < t => task[u].pc # "idle"

\* invocation t is suspended at the await named pc
At(t, pc) == ~Returned /\ task[t].pc = pc

\* every listing in flight that has read the index sees a write happen
MarkDirty(tk) ==
  [u \in Slots |-> IF tk[u].pc = "l_rec" THEN [tk[u] EXCEPT !.dirty = TRUE]
                   ELSE tk[u]]

Init ==
  /\ now = ClockStart
  /\ ticks = 0
  /\ ledger = [index |-> EmptyIndex, recs |-> <<>>]
  /\ ui = [s \in Sessions |-> InitialUi]
  /\ task = [t \in Slots |-> Idle]
  /\ ops = MaxOps
  /\ foreign = 0
  /\ emptyReads = 0

InitExt ==
  /\ now = ClockStart
  /\ ticks = 0
  /\ ledger = [index |-> EmptyIndex, recs |-> <<>>]
  /\ ui = [s \in Sessions |-> InitialUi]
  /\ task = [t \in Slots |-> Idle]
  /\ ops = MaxOpsExt
  /\ foreign = MaxForeign
  /\ emptyReads = 0

\* as Init, with a wallet that can report no account while it stays
\* connected
InitWallet ==
  /\ now = ClockStart
  /\ ticks = 0
  /\ ledger = [index |-> EmptyIndex, recs |-> <<>>]
  /\ ui = [s \in Sessions |-> InitialUi]
  /\ task = [t \in Slots |-> Idle]
  /\ ops = MaxOpsExt
  /\ foreign = 0
  /\ emptyReads = MaxEmptyReads

(***************************************************************************)
(* Environment: the clock.  transactionStatus and the timers that hide it  *)
(* are written by the handlers and read by the render alone; the message   *)
(* a handler sets last is the `fail` of its task.                          *)
(***************************************************************************)
Tick ==
  /\ ~Returned
  /\ ticks < MaxTicks
  /\ now' = now + 1
  /\ ticks' = ticks + 1
  /\ UNCHANGED <<ledger, ui, task, ops, foreign, emptyReads>>

(***************************************************************************)
(* loadDataList (lines 81-139).                                            *)
(***************************************************************************)
\* the finally block of loadDataList, then what the caller does once the
\* awaited loadDataList() returns: uploadData's finally clears `uploading`.
afterLoad(u, kind) ==
  [u EXCEPT !.isRefreshing = FALSE,
            !.loading = FALSE,
            !.uploading = IF kind = "upload" THEN FALSE ELSE @]

\* loadDataList returns or is caught without calling setDataList
loadAbort(t, why) ==
  /\ task' = [task EXCEPT ![t].pc = "end", ![t].stop = why]
  /\ ui' = [ui EXCEPT ![task[t].sess] = afterLoad(@, task[t].kind)]

\* list.sort(...); setDataList(list); finally
loadFinish(t, list) ==
  /\ task' = [task EXCEPT ![t].pc = "end", ![t].list = sortList(list),
                          ![t].listed = TRUE]
  /\ ui' = [ui EXCEPT ![task[t].sess] =
                        afterLoad([@ EXCEPT !.dataList = sortList(list)],
                                  task[t].kind)]

\* the Refresh button (lines 463-469)
refresh(s, t) ==
  /\ ~ui[s].loading
  /\ ~ui[s].isRefreshing
  /\ ops > 0
  /\ FreeSlot(t)
  /\ ops' = ops - 1
  /\ ui' = [ui EXCEPT ![s].isRefreshing = TRUE]
  /\ task' = [task EXCEPT ![t] = [Idle EXCEPT !.pc = "l_avail",
                                   !.kind = "load", !.sess = s]]
  /\ UNCHANGED <<now, ticks, ledger, foreign, emptyReads>>

\* getContractReadOnly() and contract.isAvailable() (lines 84-92): no
\* contract, not available, or a thrown error end the listing.
loadAvailable(t, outcome) ==
  /\ At(t, "l_avail")
  /\ IF outcome = "ok"
     THEN /\ task' = [task EXCEPT ![t].pc = "l_keys", ![t].rec = EmptyBytes,
                                  ![t].actor = "", ![t].account = ""]
          /\ ui' = ui
     ELSE loadAbort(t, outcome)
  /\ UNCHANGED <<now, ticks, ledger, ops, foreign, emptyReads>>

\* the keys after lines 94-103: a missing or unparsable index reads as []
parseKeys(bytes) == IF bytes.kind = "list" THEN bytes.keys ELSE <<>>

\* contract.getData("massspec_keys") and the parse (lines 94-105); a JSON
\* value that is no array makes `for (const key of keys)` throw.
loadKeys(t, fetched) ==
  /\ At(t, "l_keys")
  /\ IF ~fetched THEN loadAbort(t, "transport")
     ELSE IF ledger.index.kind = "nonlist" THEN loadAbort(t, "notiterable")
     ELSE IF parseKeys(ledger.index) = <<>> THEN loadFinish(t, <<>>)
     ELSE /\ task' = [task EXCEPT ![t].pc = "l_rec",
                                  ![t].keys = parseKeys(ledger.index),
                                  ![t].i = 1, ![t].list = <<>>]
          /\ ui' = ui
  /\ UNCHANGED <<now, ticks, ledger, ops, foreign, emptyReads>>

\* one iteration of the for loop (lines 107-129), and after the last one
\* the sort and setDataList (lines 131-132)
loadRecord(t, fetched) ==
  /\ At(t, "l_rec")
  /\ LET key == task[t].keys[task[t].i]
         list == pushRecord(task[t].list, key, fetched, getData(key))
         errs == IF fetched THEN task[t].fetchErr
                 ELSE task[t].fetchErr \cup {task[t].i}
     IN IF task[t].i = Len(task[t].keys)
        THEN /\ task' = [task EXCEPT ![t].pc = "end",
                                     ![t].list = sortList(list),
                                     ![t].fetchErr = errs,
                                     ![t].listed = TRUE]
             /\ ui' = [ui EXCEPT ![task[t].sess] =
                         afterLoad([@ EXCEPT !.dataList = sortList(list)],
                                   task[t].kind)]
        ELSE /\ task' = [task EXCEPT ![t].i = @ + 1, ![t].list = list,
                                     ![t].fetchErr = errs]
             /\ ui' = ui
  /\ UNCHANGED <<now, ticks, ledger, ops, foreign, emptyReads>>

\* the invocation has returned; its slot is free again
retire(t) ==
  /\ task[t].pc = "end"
  /\ task' = [task EXCEPT ![t] = Idle]
  /\ UNCHANGED <<now, ticks, ledger, ui, ops, foreign, emptyReads>>

(***************************************************************************)
(* uploadData (lines 141-231).                                             *)
(***************************************************************************)
\* the catch and finally blocks of uploadData
uploadCatchClearsList(t, why) ==
  /\ task' = [task EXCEPT ![t].pc = "end", ![t].fail = why]
  /\ ui' = [ui EXCEPT ![task[t].sess].uploading = FALSE,
                      ![task[t].sess].dataList = <<>>]

uploadCatch(t, why) ==
  /\ task' = [task EXCEPT ![t].pc = "end", ![t].fail = why]
  /\ ui' = [ui EXCEPT ![task[t].sess].uploading = FALSE]

\* ModalUpload.handleSubmit and the head of uploadData (lines 623-629,
\* 142-158): the form is filled, a wallet is connected with `account`.
uploadStart(s, t, account, newData) ==
  /\ ~ui[s].loading
  /\ ~ui[s].uploading
  /\ ops > 0
  /\ FreeSlot(t)
  /\ ops' = ops - 1
  /\ ui' = [ui EXCEPT ![s].uploading = TRUE]
  /\ task' = [task EXCEPT ![t] = [Idle EXCEPT !.pc = "u_signer",
                                   !.kind = "upload", !.sess = s,
                                   !.account = account,
                                   !.newData = newData]]
  /\ emptyReads' = IF account = "" THEN emptyReads - 1 ELSE emptyReads
  /\ UNCHANGED <<now, ticks, ledger, foreign>>

\* getContractWithSigner() resolves (lines 158-171): the id and the record
\* are built from Date.now(), Math.random() and the account of the render
\* the handler closed over.
uploadSigner(t, signer, rnd) ==
  /\ At(t, "u_signer")
  /\ IF ~signer THEN uploadCatch(t, "nosigner")
     ELSE /\ task' = [task EXCEPT
                 ![t].pc = "u_setrec",
                 ![t].id = dataId(now, rnd),
                 ![t].rec = massSpecData(encryptedData(task[t].newData), now,
                                         task[t].account,
                                         task[t].newData.sampleType)]
          /\ ui' = ui
  /\ UNCHANGED <<now, ticks, ledger, ops, foreign, emptyReads>>

uploadSetRecordSkipped(t, sent) ==
  /\ At(t, "u_setrec")
  /\ IF ~sent
     THEN /\ uploadCatch(t, "transport")
          /\ ledger' = ledger
     ELSE /\ ledger' = ledger
          /\ task' = [MarkDirty(task) EXCEPT
                        ![t].pc = "u_getkeys",
                        ![t].writes = @ + 1,
                        ![t].clobbered = getData(task[t].id).kind # "empty"]
          /\ ui' = ui
  /\ UNCHANGED <<now, ticks, ops, foreign, emptyReads>>

\* contract.setData(`massspec_${dataId}`, ...) (lines 174-177)
uploadSetRecord(t, sent) ==
  /\ At(t, "u_setrec")
  /\ IF ~sent
     THEN /\ uploadCatch(t, "transport")
          /\ ledger' = ledger
     ELSE /\ ledger' = setRecord(task[t].id, toUtf8Bytes(task[t].rec))
          /\ task' = [MarkDirty(task) EXCEPT
                        ![t].pc = "u_getkeys",
                        ![t].writes = @ + 1,
                        ![t].clobbered = getData(task[t].id).kind # "empty"]
          /\ ui' = ui
  /\ UNCHANGED <<now, ticks, ops, foreign, emptyReads>>

uploadGetKeysUnshift(t, fetched) ==
  /\ At(t, "u_getkeys")
  /\ IF ~fetched THEN uploadCatch(t, "transport")
     ELSE IF ledger.index.kind = "nonlist" THEN uploadCatch(t, "nopush")
     ELSE /\ task' = [task EXCEPT
                 ![t].pc = "u_setkeys",
                 ![t].keys = <<task[t].id>> \o parseKeys(ledger.index)]
          /\ ui' = ui
  /\ UNCHANGED <<now, ticks, ledger, ops, foreign, emptyReads>>

\* contract.getData("massspec_keys"), the parse and keys.push(dataId)
\* (lines 179-190); a JSON value that is no array has no push.
uploadGetKeys(t, fetched) ==
  /\ At(t, "u_getkeys")
  /\ IF ~fetched THEN uploadCatch(t, "transport")
     ELSE IF ledger.index.kind = "nonlist" THEN uploadCatch(t, "nopush")
     ELSE /\ task' = [task EXCEPT
                 ![t].pc = "u_setkeys",
                 ![t].keys = Append(parseKeys(ledger.index), task[t].id)]
          /\ ui' = ui
  /\ UNCHANGED <<now, ticks, ledger, ops, foreign, emptyReads>>

uploadSetKeysMerged(t, sent) ==
  /\ At(t, "u_setkeys")
  /\ IF ~sent
     THEN /\ uploadCatch(t, "transport")
          /\ ledger' = ledger
     ELSE /\ ledger' = setIndex(ListIndex(Append(parseKeys(ledger.index),
                                                 task[t].id)))
          /\ task' = [MarkDirty(task) EXCEPT ![t].pc = "l_avail",
                                             ![t].writes = @ + 1,
                                             ![t].keys = <<>>,
                                             ![t].rec = EmptyBytes,
                                             ![t].account = "",
                                             ![t].newData = Idle.newData]
          /\ ui' = [ui EXCEPT ![task[t].sess].isRefreshing = TRUE]
  /\ UNCHANGED <<now, ticks, ops, foreign, emptyReads>>

\* contract.setData("massspec_keys", ...), the success status and the call
\* of loadDataList (lines 192-203)
uploadSetKeys(t, sent) ==
  /\ At(t, "u_setkeys")
  /\ IF ~sent
     THEN /\ uploadCatch(t, "transport")
          /\ ledger' = ledger
     ELSE /\ ledger' = setIndex(ListIndex(task[t].keys))
          /\ task' = [MarkDirty(task) EXCEPT ![t].pc = "l_avail",
                                             ![t].writes = @ + 1,
                                             ![t].keys = <<>>,
                                             ![t].rec = EmptyBytes,
                                             ![t].account = "",
                                             ![t].newData = Idle.newData]
          /\ ui' = [ui EXCEPT ![task[t].sess].isRefreshing = TRUE]
  /\ UNCHANGED <<now, ticks, ops, foreign, emptyReads>>

(***************************************************************************)
(* analyzeData (lines 233-297) and the button that calls it.               *)
(***************************************************************************)
analyzeCatchSilent(t, why) ==
  /\ task' = [task EXCEPT ![t].pc = "end"]
  /\ ui' = ui

\* the catch block of analyzeData
analyzeCatch(t, why) ==
  /\ task' = [task EXCEPT ![t].pc = "end", ![t].fail = why]
  /\ ui' = ui

\* the condition under which a row shows the Analyze button (line 509)
analyzeOffered(account, item) ==
  isOwner(account, item.owner) /\ item.status = "pending"

\* a click on Analyze for row k by a session connected with `account`, and
\* the head of analyzeData (lines 234-247)
analyzeStart(s, t, account, k) ==
  /\ ~ui[s].loading
  /\ k \in 1..Len(ui[s].dataList)
  /\ analyzeOffered(account, ui[s].dataList[k])
  /\ ops > 0
  /\ FreeSlot(t)
  /\ ops' = ops - 1
  /\ ui' = ui
  /\ task' = [task EXCEPT ![t] =
       [Idle EXCEPT !.pc = "a_wait", !.kind = "analyze", !.sess = s,
                    !.account = account,
                    !.id = ui[s].dataList[k].id,
                    !.t0 = now,
                    !.preStatus = getData(ui[s].dataList[k].id).status]]
  /\ emptyReads' = IF account = "" THEN emptyReads - 1 ELSE emptyReads
  /\ UNCHANGED <<now, ticks, ledger, foreign>>

\* the 4 s of simulated computation have passed and getContractWithSigner()
\* resolves (lines 247-252); the signer is the account the wallet has
\* selected by then.
analyzeSigner(t, signer, actor) ==
  /\ At(t, "a_wait")
  /\ now' = IF now < task[t].t0 + AnalyzeDelayMs
            THEN task[t].t0 + AnalyzeDelayMs ELSE now
  /\ IF ~signer THEN analyzeCatch(t, "nosigner")
     ELSE /\ task' = [task EXCEPT ![t].pc = "a_get",
                                  ![t].actor = actor,
                                  ![t].t0 = 0]
          /\ ui' = ui
  /\ UNCHANGED <<ticks, ledger, ops, foreign, emptyReads>>

analyzeGetNoCheck(t, fetched) ==
  /\ At(t, "a_get")
  /\ IF ~fetched THEN analyzeCatch(t, "transport")
     ELSE IF getData(task[t].id).kind = "garbage" THEN analyzeCatch(t, "parse")
     ELSE /\ task' = [task EXCEPT ![t].pc = "a_set",
                                  ![t].rec = getData(task[t].id)]
          /\ ui' = ui
  /\ UNCHANGED <<now, ticks, ledger, ops, foreign, emptyReads>>

\* contract.getData(`massspec_${dataId}`) and JSON.parse (lines 254-259)
analyzeGet(t, fetched) ==
  /\ At(t, "a_get")
  /\ IF ~fetched THEN analyzeCatch(t, "transport")
     ELSE IF getData(task[t].id).kind = "empty" THEN analyzeCatch(t, "notfound")
     ELSE IF getData(task[t].id).kind # "json" THEN analyzeCatch(t, "parse")
     ELSE /\ task' = [task EXCEPT ![t].pc = "a_set",
                                  ![t].rec = getData(task[t].id)]
          /\ ui' = ui
  /\ UNCHANGED <<now, ticks, ledger, ops, foreign, emptyReads>>

\* contract.setData(`massspec_${dataId}`, updatedData), the success status
\* and the call of loadDataList (lines 264-281)
analyzeSet(t, sent) ==
  /\ At(t, "a_set")
  /\ IF ~sent
     THEN /\ analyzeCatch(t, "transport")
          /\ ledger' = ledger
     ELSE /\ ledger' = setRecord(task[t].id,
                         toUtf8Bytes(updatedData(parseRecord(task[t].rec))))
          /\ task' = [MarkDirty(task) EXCEPT ![t].pc = "l_avail",
                                             ![t].writes = @ + 1]
          /\ ui' = [ui EXCEPT ![task[t].sess].isRefreshing = TRUE]
  /\ UNCHANGED <<now, ticks, ops, foreign, emptyReads>>

(***************************************************************************)
(* Other clients of the contract: setData is open to every caller, so the  *)
(* bytes under a key may be anything.                                      *)
(***************************************************************************)
RECURSIVE Reverse(_)
Reverse(seq) == IF seq = <<>> THEN <<>> ELSE Append(Reverse(Tail(seq)), Head(seq))

ForeignIndexValues ==
  {EmptyIndex, GarbageIndex, NonListIndex, ListIndex(<<>>),
   ListIndex(Reverse(parseKeys(ledger.index)))}

ForeignRecordValues(key) ==
  {EmptyBytes, GarbageBytes}
  \cup (IF getData(key).kind = "json"
        THEN {[getData(key) EXCEPT !.status = "error"],
              [getData(key) EXCEPT !.status = UNDEF]}
        ELSE {})

foreignSetIndex(bytes) ==
  /\ ~Returned
  /\ foreign > 0
  /\ bytes # ledger.index
  /\ foreign' = foreign - 1
  /\ ledger' = setIndex(bytes)
  /\ task' = MarkDirty(task)
  /\ UNCHANGED <<now, ticks, ui, ops, emptyReads>>

foreignSetRecord(key, bytes) ==
  /\ ~Returned
  /\ foreign > 0
  /\ bytes # getData(key)
  /\ foreign' = foreign - 1
  /\ ledger' = setRecord(key, bytes)
  /\ task' = MarkDirty(task)
  /\ UNCHANGED <<now, ticks, ui, ops, emptyReads>>

(***************************************************************************)
(* Specifications.                                                         *)
(***************************************************************************)
Outcomes == {"ok", "nocontract", "unavailable", "transport"}

Next ==
  \/ Tick
  \/ \E s \in Sessions, t \in Slots : refresh(s, t)
  \/ \E t \in Slots, o \in Outcomes : loadAvailable(t, o)
  \/ \E t \in Slots, f \in BOOLEAN : loadKeys(t, f)
  \/ \E t \in Slots, f \in BOOLEAN : loadRecord(t, f)
  \/ \E s \in Sessions, t \in Slots, st \in SampleTypes, mz \in SpectrumInputs :
       \E acc \in closedOverAccounts(s) :
         uploadStart(s, t, acc, [sampleType |-> st, massSpecData |-> mz])
  \/ \E t \in Slots, sg \in BOOLEAN, rnd \in 0..MaxRand : uploadSigner(t, sg, rnd)
  \/ \E t \in Slots, f \in BOOLEAN : uploadSetRecord(t, f)
  \/ \E t \in Slots, f \in BOOLEAN : uploadGetKeys(t, f)
  \/ \E t \in Slots, f \in BOOLEAN : uploadSetKeys(t, f)
  \/ \E s \in Sessions, t \in Slots, k \in 1..MaxOps :
       \E acc \in closedOverAccounts(s) : analyzeStart(s, t, acc, k)
  \/ \E t \in Slots, sg \in BOOLEAN :
       \E actor \in accountValues(task[t].sess) : analyzeSigner(t, sg, actor)
  \/ \E t \in Slots, f \in BOOLEAN : analyzeGet(t, f)
  \/ \E t \in Slots, f \in BOOLEAN : analyzeSet(t, f)
  \/ \E t \in Slots : retire(t)

ForeignKeys == DOMAIN ledger.recs

NextExt ==
  \/ Next
  \/ \E b \in ForeignIndexValues : foreignSetIndex(b)
  \/ \E k \in ForeignKeys : \E b \in ForeignRecordValues(k) : foreignSetRecord(k, b)

Spec == Init /\ [][Next]_vars

SpecExt == InitExt /\ [][NextExt]_vars

SpecWallet == InitWallet /\ [][Next]_vars

(***************************************************************************)
(* Properties.                                                             *)
(***************************************************************************)
Range(seq) == {seq[i] : i \in DOMAIN seq}

SeqToBag(seq) ==
  [x \in Range(seq) |-> Cardinality({i \in DOMAIN seq : seq[i] = x})]

\* the invocations that have just returned
Ended(kind) == {t \in Slots : task[t].pc = "end" /\ task[t].kind = kind}

Listings == {t \in Slots : task[t].pc = "end" /\ task[t].listed}

\* the records of the index entries keys[i..] that are stored as JSON and
\* whose fetch did not throw, in index order
RECURSIVE ReadableFrom(_, _, _)
ReadableFrom(keys, errs, i) ==
  IF i > Len(keys) THEN <<>>
  ELSE IF i \notin errs /\ getData(keys[i]).kind = "json"
       THEN <<[id |-> keys[i], stored |-> getData(keys[i])]>>
            \o ReadableFrom(keys, errs, i + 1)
       ELSE ReadableFrom(keys, errs, i + 1)

Shown(list) ==
  [i \in DOMAIN list |->
     [id |-> list[i].id,
      stored |-> [kind |-> "json", data |-> list[i].encryptedData,
                  timestamp |-> list[i].timestamp, owner |-> list[i].owner,
                  sampleType |-> list[i].sampleType,
                  status |-> list[i].status, fheResult |-> list[i].fheResult]]]

\* a stored record as the list shows it: a missing status shows as pending
AsShown(e) ==
  [e EXCEPT !.stored.status = IF @ = UNDEF THEN "pending" ELSE @]

\* C1: a listing that iterates an index of n ids while nobody writes the
\* ledger always reaches setDataList, and the snapshot it sets holds
\* exactly the entries whose record is stored, decodes and was fetched:
\* an absent or undecodable record, or a failed fetch, is skipped.
C1_ListingKeepsTheReadable ==
  \A t \in Slots :
    (task[t].pc = "end" /\ task[t].i > 0) =>
      /\ task[t].listed
      /\ ~task[t].dirty =>
           LET want == ReadableFrom(task[t].keys, task[t].fetchErr, 1)
           IN SeqToBag(Shown(ui[task[t].sess].dataList))
                = SeqToBag([i \in DOMAIN want |-> AsShown(want[i])])

\* C1 witness: an index of two ids, one of them undecodable, listed as the
\* one readable record.
C1_Witness ==
  \E t \in Listings :
    /\ ~task[t].dirty
    /\ task[t].fetchErr = {}
    /\ Len(task[t].keys) = 2
    /\ getData(task[t].keys[1]).kind = "json"
    /\ getData(task[t].keys[2]).kind = "garbage"
    /\ Len(ui[task[t].sess].dataList) = 1
    /\ ui[task[t].sess].dataList[1].id = task[t].keys[1]

\* C2: after every successful create the identifier was used by no earlier
\* record, and the listing uploadData then runs, when it reads every
\* record, shows a record with that identifier and status pending.
C2_CreateIsFreshAndListed ==
  \A t \in Ended("upload") :
    task[t].fail = "" =>
      /\ ~task[t].clobbered
      /\ (task[t].listed /\ task[t].fetchErr = {}) =>
           \E i \in DOMAIN ui[task[t].sess].dataList :
             /\ ui[task[t].sess].dataList[i].id = task[t].id
             /\ ui[task[t].sess].dataList[i].status = "pending"

\* C3: analyze of a record stored as pending, by its owner, that ends for
\* another reason than a failed ledger call leaves the record stored as
\* analyzed with a result, or as error.
C3_AnalyzeEndsAnalyzedOrError ==
  \A t \in Ended("analyze") :
    (/\ task[t].preStatus = "pending"
     /\ getData(task[t].id).kind = "json"
     /\ isOwner(task[t].account, getData(task[t].id).owner)
     /\ task[t].fail # "transport") =>
      \/ /\ getData(task[t].id).status = "analyzed"
         /\ getData(task[t].id).fheResult # UNDEF
      \/ getData(task[t].id).status = "error"

\* the invocations of analyzeData whose setData has just succeeded
AnalyzeWrote ==
  {t \in Slots : task[t].kind = "analyze" /\ task[t].pc = "l_avail"}

\* C4: analyzeData writes the ledger only when the identity that signs the
\* write is the owner of the record.
C4_OnlyTheOwnerWrites ==
  \A t \in AnalyzeWrote : isOwner(task[t].actor, task[t].rec.owner)

\* C5: analyzeData writes the ledger only when the record it fetched was
\* stored as pending.
C5_OnlyPendingIsAnalyzed ==
  \A t \in AnalyzeWrote : task[t].rec.status = "pending"


\* C6: when analyzeData reads the key of its id and the ledger holds no
\* bytes under it, the invocation ends in the not-found error (or in the
\* transport error of a getData call that itself failed), it has written
\* nothing, and the step leaves the ledger, index included, as it was.
C6_MissingRecordIsNotFound ==
  [][\A t \in Slots :
       (/\ task[t].pc = "a_get"
        /\ task'[t].pc # "a_get"
        /\ getData(task[t].id).kind = "empty")
       => /\ task'[t].pc = "end"
          /\ task'[t].fail \in {"notfound", "transport"}
          /\ task'[t].writes = 0
          /\ ledger' = ledger]_vars

C6_Witness ==
  \E t \in Ended("analyze") :
    /\ task[t].fail = "notfound"
    /\ task[t].writes = 0
    /\ task[t].id \notin DOMAIN ledger.recs \/ ledger.recs[task[t].id].kind = "empty"

\* C7: a loadDataList that reads an index that is absent, an empty list or
\* bytes that do not decode to a list of ids leaves the snapshot of its
\* session empty.
C7_NoIndexGivesEmptySnapshot ==
  [][\A t \in Slots :
       (/\ task[t].pc = "l_keys"
        /\ task'[t].pc # "l_keys"
        /\ task'[t].stop # "transport"
        /\ ledger.index.kind # "list" \/ ledger.index.keys = <<>>)
       => /\ task'[t].pc = "end"
          /\ ui'[task[t].sess].dataList = <<>>]_vars

\* C8: in every snapshot each record is at least as recent as the one
\* after it.
C8_SnapshotNewestFirst ==
  \A s \in Sessions :
    \A k \in 1..(Len(ui[s].dataList) - 1) :
      ui[s].dataList[k].timestamp >= ui[s].dataList[k + 1].timestamp

\* a snapshot of two records of different age, listed in the reverse of the
\* order the index holds their ids in
C8_Witness ==
  \E s \in Sessions :
    /\ Len(ui[s].dataList) = 2
    /\ ui[s].dataList[1].timestamp > ui[s].dataList[2].timestamp
    /\ ledger.index = ListIndex(<<ui[s].dataList[2].id, ui[s].dataList[1].id>>)

StatusValues == {"pending", "analyzed", "error"}

\* C9: every record the application has stored, and every record of every
\* snapshot, has one of the three statuses, and has a result annotation
\* exactly when its status is analyzed.
C9_StatusAndResultAgree ==
  /\ \A k \in DOMAIN ledger.recs :
       /\ ledger.recs[k].kind = "json"
       /\ ledger.recs[k].status \in StatusValues
       /\ (ledger.recs[k].fheResult # UNDEF) <=> (ledger.recs[k].status = "analyzed")
  /\ \A s \in Sessions : \A k \in DOMAIN ui[s].dataList :
       /\ ui[s].dataList[k].status \in StatusValues
       /\ (ui[s].dataList[k].fheResult # UNDEF)
            <=> (ui[s].dataList[k].status = "analyzed")

C9_Witness ==
  \E s \in Sessions : \E k \in DOMAIN ui[s].dataList :
    /\ ui[s].dataList[k].status = "analyzed"
    /\ ui[s].dataList[k].fheResult = FheResultText
    /\ getData(ui[s].dataList[k].id).status = "analyzed"
    /\ getData(ui[s].dataList[k].id).fheResult = FheResultText

\* the fields of a stored record that analyzeData is to leave alone, the
\* owner as the identity isOwner compares
Frame(bytes) ==
  <<bytes.kind, toLowerCase(bytes.owner), bytes.timestamp, bytes.data,
    bytes.sampleType>>

\* C10: the write of analyzeData leaves the owner, the timestamp, the
\* payload and the sample type stored under the key of its id as they were
\* just before the write, whatever ran since it read the record.
C10_AnalyzeKeepsTheFrame ==
  [][\A t \in Slots :
       (task[t].pc = "a_set" /\ task'[t].pc = "l_avail")
       => Frame(ledger'.recs[task[t].id]) = Frame(getData(task[t].id))]_vars

IsPrefix(a, b) == Len(a) <= Len(b) /\ \A k \in DOMAIN a : a[k] = b[k]

\* invocation t of uploadData is about to write the index, and the ids it
\* holds are those of the stored index and its own: no index write came
\* between its read and now
UnracedAppend(t) ==
  /\ task[t].kind = "upload"
  /\ task[t].pc = "u_setkeys"
  /\ SeqToBag(task[t].keys)
       = SeqToBag(parseKeys(ledger.index)) (+) SetToBag({task[t].id})

\* C11 as stated: the index stored before any step is a prefix of the index
\* stored after it.
C11_IndexOnlyGrows ==
  [][IsPrefix(parseKeys(ledger.index), parseKeys(ledger'.index))]_vars

\* C11 amended: only the index write of uploadData changes the index, and
\* when no other index write came between its read and its write, the
\* index after the write is the index before it with the new id appended.
C11_UnracedAppendOnlyGrows ==
  [][/\ ledger'.index # ledger.index =>
          \E t \in Slots : task[t].pc = "u_setkeys" /\ task'[t].pc = "l_avail"
     /\ \A t \in Slots :
          (UnracedAppend(t) /\ task'[t].pc = "l_avail") =>
            /\ parseKeys(ledger'.index)
                 = Append(parseKeys(ledger.index), task[t].id)
            /\ IsPrefix(parseKeys(ledger.index), parseKeys(ledger'.index))]_vars

\* two creates one after the other: the index holds both ids, the second
\* create's behind the first's
C11_Witness ==
  \E t \in Slots :
    /\ task[t].kind = "upload"
    /\ task[t].pc = "l_avail"
    /\ task[t].writes = 2
    /\ Len(parseKeys(ledger.index)) = 2
    /\ ledger.index.keys[2] = task[t].id
    /\ ledger.index.keys[1] # task[t].id

\* C12: the stored index holds no identifier twice.
C12_IndexHasNoDuplicates ==
  \A i, j \in DOMAIN parseKeys(ledger.index) :
    i # j => ledger.index.keys[i] # ledger.index.keys[j]

\* the records the claim calls valid: the objects uploadData and
\* analyzeData build, and the same with status error
ValidRecords ==
  {[data |-> encryptedData([sampleType |-> st, massSpecData |-> mz]),
    timestamp |-> ts, owner |-> o, sampleType |-> st,
    status |-> sr[1], fheResult |-> sr[2]] :
     st \in SampleTypes, mz \in SpectrumInputs,
     ts \in {now \div MsPerSec},
     o \in UNION {WalletAccounts(s) : s \in Sessions},
     sr \in {<<"pending", UNDEF>>, <<"analyzed", FheResultText>>,
             <<"error", UNDEF>>}}

\* the row loadDataList builds from the bytes stored for r under key is r,
\* field by field
RoundTrip(key, r) ==
  listItem(key, parseRecord(toUtf8Bytes(r)))
    = [id |-> key, encryptedData |-> r.data, timestamp |-> r.timestamp,
       owner |-> r.owner, sampleType |-> r.sampleType, status |-> r.status,
       fheResult |-> r.fheResult]

C14_AnalyzeTransportFailure ==
  [][\A t \in Slots :
       /\ (/\ task[t].kind = "analyze"
           /\ task[t].pc \in {"a_get", "a_set"}
           /\ task'[t].pc = "end"
           /\ task'[t].fail \notin {"notfound", "parse"})
          => /\ task'[t].fail = "transport"
             /\ task'[t].writes = 0
             /\ ledger' = ledger
       /\ (/\ task[t].kind = "analyze"
           /\ task'[t].pc = "end"
           /\ task'[t].writes = 0)
          => task'[t].fail # ""]_vars

\* an analyzeData whose setData failed: the record it fetched as pending is
\* still stored as pending
C14_Witness ==
  \E t \in Ended("analyze") :
    /\ task[t].fail = "transport"
    /\ task[t].writes = 0
    /\ task[t].rec.kind = "json"
    /\ getData(task[t].id) = task[t].rec
    /\ getData(task[t].id).status = "pending"

\* C15: the snapshot of a session changes only in the step in which a
\* listing of that session calls setDataList, and when that listing is the
\* one uploadData or analyzeData runs, all the writes of the invocation
\* have succeeded; an uploadData or analyzeData that fails leaves the
\* snapshot as it is and ends with its error reported.
C15_SnapshotOnlyAfterSuccess ==
  [][/\ \A s \in Sessions :
          ui'[s].dataList # ui[s].dataList =>
            \E t \in Slots :
              /\ task[t].sess = s
              /\ task[t].pc \in {"l_keys", "l_rec"}
              /\ task'[t].pc = "end"
              /\ task'[t].listed
              /\ task[t].fail = ""
              /\ task[t].kind = "upload" => task[t].writes = 2
              /\ task[t].kind = "analyze" => task[t].writes = 1
     /\ \A t \in Slots :
          (/\ task[t].kind \in {"upload", "analyze"}
           /\ task[t].pc \notin {"l_avail", "l_keys", "l_rec"}
           /\ task'[t].pc = "end")
          => /\ task'[t].fail # ""
             /\ ui'[task[t].sess].dataList = ui[task[t].sess].dataList]_vars

\* an uploadData whose record write succeeded and whose index write failed:
\* the snapshot still shows the one record it showed before
C15_Witness ==
  \E t \in Ended("upload") :
    /\ task[t].fail = "transport"
    /\ task[t].writes = 1
    /\ Len(ui[task[t].sess].dataList) = 1
    /\ ui[task[t].sess].dataList[1].id # task[t].id

\* C16: when a listing has ended on a missing or unavailable contract or on
\* a failed read of the index, every row of the snapshot of its session is
\* of a record the ledger now stores, with the status and the result the
\* ledger now stores for it.
C16_FailedListingShowsTheLedger ==
  \A t \in Slots :
    (task[t].pc = "end" /\ task[t].stop \in {"nocontract", "unavailable", "transport"})
    => \A k \in DOMAIN ui[task[t].sess].dataList :
         LET row == ui[task[t].sess].dataList[k]
         IN /\ getData(row.id).kind = "json"
            /\ row.status = listItem(row.id, parseRecord(getData(row.id))).status
            /\ row.fheResult = getData(row.id).fheResult

\* no handler is in flight
AllIdle == \A t \in Slots : task[t].pc = "idle"

\* text contains part, letters compared without case
ContainsNoCase(text, part) ==
  \E off \in 0..(Len(text) - Len(part)) :
    \A i \in 1..Len(part) : lowerChar(text[off + i]) = lowerChar(part[i])

\* the rows the claim says the filter keeps
Wanted(row, query, statusFilter) ==
  /\ \/ ContainsNoCase(sampleTypeText(row.sampleType), query)
     \/ ContainsNoCase(idText(row.id), query)
  /\ statusFilter # "all" => row.status = statusFilter

\* the positions of list that hold a wanted row, and the j-th of them
WantedAt(list, query, statusFilter) ==
  {k \in DOMAIN list : Wanted(list[k], query, statusFilter)}

NthOf(set, j) == CHOOSE k \in set : Cardinality({m \in set : m < k}) = j - 1

\* C17: for every snapshot, query and status filter, filteredData is the
\* wanted rows of the snapshot in snapshot order, and the whole snapshot
\* for the empty query and the filter "all".
C17_FilterKeepsTheWanted ==
  AllIdle =>
    \A s \in Sessions, q \in SearchQueries, f \in FilterStatuses :
      LET list == ui[s].dataList
          out == filteredData(list, q, f)
          at == WantedAt(list, q, f)
      IN /\ Len(out) = Cardinality(at)
         /\ \A j \in DOMAIN out : out[j] = list[NthOf(at, j)]
         /\ (q = <<>> /\ f = "all") => out = list

\* a snapshot of a pending and an analyzed record, of which an upper-case
\* query with the filter "analyzed" keeps one and a query on the later id
\* keeps one
C17_Witness ==
  /\ AllIdle
  /\ \E s \in Sessions :
       /\ Len(ui[s].dataList) = 2
       /\ Len(filteredData(ui[s].dataList, <<"P", "R", "O", "T">>, "all")) = 2
       /\ Len(filteredData(ui[s].dataList, <<"P", "R", "O", "T">>, "analyzed")) = 1
       /\ Len(filteredData(ui[s].dataList, <<"2", "0", "0", "0">>, "all")) = 1
       /\ Len(filteredData(ui[s].dataList, <<"x">>, "all")) = 0

\* the number of rows of list with the given status
RowsWith(list, status) == Cardinality({k \in DOMAIN list : list[k].status = status})

\* C18: for every snapshot the three counts are the numbers of rows with
\* status analyzed, pending and error, they add up to the length of the
\* snapshot, they are zero for the empty snapshot, and the divisor of the
\* bar heights is the larger of the length and 1.
C18_CountsPerStatus ==
  \A s \in Sessions :
    LET list == ui[s].dataList
    IN /\ analyzedCount(list) = RowsWith(list, "analyzed")
       /\ pendingCount(list) = RowsWith(list, "pending")
       /\ errorCount(list) = RowsWith(list, "error")
       /\ analyzedCount(list) + pendingCount(list) + errorCount(list) = Len(list)
       /\ list = <<>> =>
            /\ analyzedCount(list) = 0 /\ pendingCount(list) = 0 /\ errorCount(list) = 0
            /\ barHeight(analyzedCount(list), list) = 0
       /\ barDivisor(list) >= 1
       /\ barDivisor(list) >= Len(list)
       /\ barDivisor(list) \in {1, Len(list)}
       /\ barHeight(analyzedCount(list), list) + barHeight(pendingCount(list), list)
            + barHeight(errorCount(list), list) <= 100

\* a snapshot of one pending and one error record
C18_Witness ==
  \E s \in Sessions :
    /\ Len(ui[s].dataList) = 2
    /\ pendingCount(ui[s].dataList) = 1
    /\ errorCount(ui[s].dataList) = 1
    /\ barHeight(errorCount(ui[s].dataList), ui[s].dataList) = 50

\* the invocations of session s that have started and not yet returned
InFlight(s) == {t \in Slots : task[t].sess = s /\ task[t].pc \notin {"idle", "end"}}

\* C19: in every session at most one of uploadData, analyzeData and
\* loadDataList is in flight.
C19_OneOperationPerSession ==
  \A s \in Sessions : Cardinality(InFlight(s)) <= 1

\* C20: the index write of uploadData stores the ids its invocation read
\* and its own, whatever the index holds by then: an id stored since its
\* read is no longer in the index after the write.
C20_IndexWriteIsLastWriterWins ==
  [][\A t \in Slots :
       (task[t].kind = "upload" /\ task[t].pc = "u_setkeys"
          /\ task'[t].pc = "l_avail")
       => /\ parseKeys(ledger'.index) = task[t].keys
          /\ \A k \in DOMAIN parseKeys(ledger.index) :
               (\A j \in DOMAIN task[t].keys :
                  task[t].keys[j] # ledger.index.keys[k])
               => \A j \in DOMAIN parseKeys(ledger'.index) :
                    ledger'.index.keys[j] # ledger.index.keys[k]]_vars

\* two sessions have each completed both writes of a create, both records
\* are stored, and the index holds the id of one of them only
C20_Witness ==
  \E t, u \in Slots :
    /\ task[t].kind = "upload" /\ task[u].kind = "upload"
    /\ task[t].sess # task[u].sess
    /\ task[t].writes = 2 /\ task[u].writes = 2
    /\ task[t].fail = "" /\ task[u].fail = ""
    /\ task[t].id # task[u].id
    /\ getData(task[t].id).kind = "json"
    /\ getData(task[u].id).kind = "json"
    /\ ledger.index = ListIndex(<<task[u].id>>)

\* the ids the stored index holds
Indexed == Range(parseKeys(ledger.index))

\* every id of the index has a record stored under its key
NoDanglingEntry == \A id \in Indexed : getData(id).kind = "json"

\* an uploadData that is past its record write has that record stored, and
\* one that failed has made at most the record write
RecordBeforeIndex ==
  \A t \in Slots :
    task[t].kind = "upload" =>
      /\ task[t].pc \in {"u_getkeys", "u_setkeys"} =>
           task[t].writes = 1 /\ getData(task[t].id).kind = "json"
      /\ (task[t].pc = "end" /\ task[t].fail # "") => task[t].writes <= 1
      /\ (task[t].pc = "end" /\ task[t].fail # "" /\ task[t].writes = 1) =>
           getData(task[t].id).kind = "json"

\* C21: no id of the index lacks a stored record; uploadData writes its
\* record before the index, so a failed one leaves at most a stored record;
\* and the index changes only in the index write of an uploadData, which
\* adds no id but its own to the ids it read: no step puts the id of an
\* orphan into the index.
C21_RecordThenIndex ==
  [][/\ NoDanglingEntry'
     /\ RecordBeforeIndex'
     /\ ledger'.index # ledger.index =>
          \E t \in Slots :
            /\ task[t].kind = "upload"
            /\ task[t].pc = "u_setkeys"
            /\ task'[t].pc = "l_avail"
            /\ Indexed' = Range(task[t].keys)
     /\ \A t \in Slots :
          (task[t].pc = "u_getkeys" /\ task'[t].pc = "u_setkeys")
            => Range(task'[t].keys) = Indexed \cup {task[t].id}
     /\ \A t \in Slots :
          (task[t].kind # "upload" /\ task'[t].pc # task[t].pc)
            => ledger'.index = ledger.index]_vars

\* an uploadData whose record write succeeded and whose index write failed:
\* its record is stored, its id is not in the index, which holds another id
C21_Witness ==
  \E t \in Ended("upload") :
    /\ task[t].fail = "transport"
    /\ task[t].writes = 1
    /\ getData(task[t].id).kind = "json"
    /\ task[t].id \notin Indexed
    /\ Cardinality(Indexed) = 1

\* C22: a record stored as analyzed or error is never written again, and a
\* record stored as pending stays pending or becomes analyzed or error.
C22_StatusOnlyMovesForward ==
  [][\A key \in DOMAIN ledger.recs :
       ledger.recs[key].kind = "json" =>
         /\ ledger.recs[key].status \in {"analyzed", "error"}
              => ledger'.recs[key] = ledger.recs[key]
         /\ ledger.recs[key].status = "pending"
              => /\ ledger'.recs[key].kind = "json"
                 /\ ledger'.recs[key].status \in StatusValues]_vars

\* the values `account` and a record's owner take in the model
AccountStrings == {"", "0xa", "0xA", "0xb"}

\* equality of two of them up to letter case
EqualIgnoringCase(a, b) == a = b \/ {a, b} = {"0xa", "0xA"}

\* C23: isOwner is equality up to letter case; Analyze is offered for a row
\* of a snapshot only to an account that equals the row's owner up to
\* letter case and only while the row is pending; and it is offered for no
\* row to a session whose account is the empty string.
C23_AnalyzeOfferedToTheOwner ==
  /\ \A a \in AccountStrings, o \in AccountStrings :
       isOwner(a, o) <=> EqualIgnoringCase(a, o)
  /\ \A s \in Sessions : \A k \in DOMAIN ui[s].dataList :
       /\ \A a \in AccountStrings :
            analyzeOffered(a, ui[s].dataList[k]) =>
              /\ EqualIgnoringCase(a, ui[s].dataList[k].owner)
              /\ ui[s].dataList[k].status = "pending"
       /\ ~analyzeOffered("", ui[s].dataList[k])

\* the list a loadDataList builds from keys[i..] when every fetch succeeds
\* and the ledger stays as it is
RECURSIVE ListedFrom(_, _, _)
ListedFrom(list, keys, i) ==
  IF i > Len(keys) THEN list
  ELSE ListedFrom(pushRecord(list, keys[i], TRUE, getData(keys[i])), keys, i + 1)

\* the listing of the ledger as it is now
LedgerListing == sortList(ListedFrom(<<>>, parseKeys(ledger.index), 1))

\* the snapshot of session s is the listing of the ledger
Reconciled(s) == ui[s].dataList = LedgerListing

\* C24: a snapshot that is the listing of the ledger, whose index holds no
\* id twice, stays so when a loadDataList of its session, all of whose reads
\* succeeded, sets the snapshot while the ledger is not written: no listing
\* that read the ledger earlier replaces the snapshot of one that read it
\* later.
C24_SnapshotReconciled ==
  [][\A t \in Slots :
       (/\ task[t].pc \in {"l_keys", "l_rec"}
        /\ task'[t].pc = "end"
        /\ task'[t].listed
        /\ task'[t].fetchErr = {}
        /\ Cardinality(Indexed) = Len(parseKeys(ledger.index))
        /\ Reconciled(task[t].sess))
       => Reconciled(task[t].sess)']_vars
====
